---------------------------- MODULE Spec2Model ----------------------------
(***************************************************************************)
(* nXTLS: trailing alert record scanner, direct write/read/copy helpers,   *)
(* mode parsing and the per-connection XTLS state tracker.                 *)
(*                                                                         *)
(* Byte buffers are sequences of integers 0..255.  Go's zero-based index   *)
(* buf[i] is At(buf, i); the slice buf[:n] is Slice(buf, n).               *)
(***************************************************************************)
EXTENDS Integers, Sequences, FiniteSets, TLC

VARIABLES
  buf,         \* the input buffer handed to the scanner / the writer
  payload,     \* the part of buf in front of the appended records
  recs,        \* declared lengths of the records appended to payload
  spc,         \* scanner driver: "start", "stripped", "restripped"
  res,         \* result of RemoveAllTrailingAlerts(buf)
  res2,        \* result of RemoveAllTrailingAlerts(res.head)
  iopc,        \* helper driver: "idle", "wrote", "read", "copying", "copied"
  wArg,        \* the bytes XTLSWriteDirect handed to conn.Write
  under,       \* (n, err) the last underlying conn.Read / conn.Write returned
  ret,         \* (n, err) the helper returned to its caller
  log,         \* the last line XTLSDebug printed, or NoLine
  srcLeft,     \* XTLSCopyConn: bytes the source has not delivered yet
  written,     \* XTLSCopyConn: the running total
  readErr,     \* XTLSCopyConn: the error src.Read returned last
  writeErr,    \* XTLSCopyConn: the error dst.Write returned last
  ppc,         \* parser driver: "start", "parsed"
  pIn,         \* the string handed to the parser, a sequence of characters
  pFn,         \* which parser ran: "ParseXTLSMode" or "XTLSModeFromString"
  pOut,        \* the XTLSMode it returned
  st,          \* the XTLSConnState of one connection (without its mutex)
  mutex,       \* holder of the state's sync.Mutex, or Free
  tpc,         \* per goroutine: where it is in UpdateXTLSState / DumpXTLSState
  targs,       \* per goroutine: the (field, value) of the call in progress
  pre,         \* per goroutine: the state as it was when it took the mutex
  now,         \* the wall clock time.Now() reads
  diag,        \* the line the latest critical section printed, or NoLine
  lastLocker,  \* the goroutine whose UpdateXTLSState took the mutex last, or NoOne
  lastStamp,   \* the time.Now() that goroutine read, or ZeroTime
  lastSet,     \* per flag: the value of the last transition naming it
  epc,         \* enable driver: "start", "enabled"
  conn0,       \* the connection as it was handed to EnableXTLS
  conn,        \* the connection: its method set, its mode and its debug flag
  eargs,       \* the (mode, debug) arguments of the call
  ecalls,      \* the calls made on the connection, in order
  kpc,         \* pattern driver: "start", "stripped"
  kbase,       \* the bytes before the tail
  ktail,       \* the tail appended to kbase
  kres,        \* the result of StripTrailingAlert(kbase \o ktail)
  lpc,         \* loop driver: "idle", "loop", "done"
  lpos,        \* FindAllTrailingAlerts: pos
  lprev,       \* pos before the latest pass of the loop
  lcount,      \* FindAllTrailingAlerts: alertCount
  liters,      \* passes through the loop body so far
  handshook,   \* pkg/xtls Conn: the handshook field
  cop,         \* the wrapper method called last, or NoCall
  ccalls,      \* the calls that method made on the embedded nxtls.Conn, with what each returned
  cret,        \* (n, err) that method returned
  hsDone,      \* an embedded Handshake has returned nil
  hsBefore,    \* hsDone as it was when the last method was called
  ncalls       \* wrapper methods called so far

scanVars == <<buf, payload, recs, spc, res, res2>>

ioVars == <<iopc, wArg, under, ret, log, srcLeft, written, readErr, writeErr>>

parseVars == <<ppc, pIn, pFn, pOut>>

stateVars == <<st, mutex, tpc, targs, pre, now, diag, lastLocker, lastStamp, lastSet>>

enableVars == <<epc, conn0, conn, eargs, ecalls>>

patVars == <<kpc, kbase, ktail, kres>>

loopVars == <<lpc, lpos, lprev, lcount, liters>>

connVars == <<handshook, cop, ccalls, cret, hsDone, hsBefore, ncalls>>

vars == <<scanVars, ioVars, parseVars, stateVars, enableVars, patVars, loopVars, connVars>>

-----------------------------------------------------------------------------
(* Bounds of the explored inputs *)

MaxPayloadLen == 5
MaxAlerts == 2
MaxWritePayloadLen == 2
MaxWriteAlerts == 2
MaxCopyPayloadLen == 1
MaxCopyAlerts == 1
MaxTime == 3
NumWorkers == 3

-----------------------------------------------------------------------------
(* Bytes and buffers *)

\* bytes the payloads are drawn from: 0x00, 0x03 and 0x15, the bytes a record
\* header is made of (so payloads contain headers, partial and malformed records)
PayloadBytes == {0, 3, 21}

\* declared lengths of the appended records: malformed (0, 257) and well-formed
RecLens == {0, 2, 256, 257}

NoLine == <<"none">>

NoResult == [head |-> <<>>, alertCount |-> -1]

NoStripped == [stripped |-> <<"none">>, removed |-> FALSE]

HelloWorld == <<104, 101, 108, 108, 111, 32, 119, 111, 114, 108, 100>>

At(b, i) == b[i + 1]

Slice(b, n) == SubSeq(b, 1, n)

RECURSIVE SeqsUpTo(_, _)
SeqsUpTo(S, n) ==
  IF n = 0 THEN {<<>>}
  ELSE LET shorter == SeqsUpTo(S, n - 1)
       IN  shorter \cup {Append(s, x) : s \in {t \in shorter : Len(t) = n - 1}, x \in S}

\* the body of an alert record of L bytes: level 1 (warning), then zeros
\* (for L = 2: 0x01 0x00, close_notify)
AlertBody(L) == [i \in 1..L |-> IF i = 1 THEN 1 ELSE 0]

\* a record with the TLS 1.2 alert header declaring L body bytes
AlertRecord(L) == <<21, 3, 3, L \div 256, L % 256>> \o AlertBody(L)

RECURSIVE Records(_)
Records(ls) ==
  IF ls = <<>> THEN <<>> ELSE AlertRecord(Head(ls)) \o Records(Tail(ls))

-----------------------------------------------------------------------------
(* Values of the program's types, and each component at rest *)

Nil == "nil"

EOF == "EOF"

ErrRead == "read: connection reset by peer"

ErrWrite == "write: broken pipe"

NoCall == [n |-> -1, err |-> Nil]

NoMethod == "none"

XTLSModeOrigin == 0

XTLSModeDirect == 1

Free == "free"

\* the goroutines that share one connection's state
Procs == {"reader", "writer"}

FieldNames == {"DirectReady", "OriginFallback", "ReadBypass", "WriteBypass"}

\* field names handed to the transition, recognised or not
FieldInputs == FieldNames \cup {"Bogus"}

\* time.Time's zero value
ZeroTime == 0

NoArgs == [field |-> "", value |-> FALSE]

XTLSConnState(debug) ==
  [ Initialized |-> FALSE, DirectReady |-> FALSE, OriginFallback |-> FALSE,
    ReadBypass |-> FALSE, WriteBypass |-> FALSE, DataTotal |-> 0, DataCount |-> 0,
    FirstPacket |-> FALSE, ExpectLen |-> 0, MatchCount |-> 0, FallbackCount |-> 0,
    Debug |-> debug, LastTransition |-> ZeroTime ]

NoState == [Debug |-> FALSE]

NoOne == "no one"

\* a connection value: any type with the methods ms
Connection(ms, mode, debug) == [methods |-> ms, mode |-> mode, debug |-> debug]

IdleEnable ==
  /\ epc = "start"
  /\ conn0 = Connection({}, XTLSModeOrigin, FALSE)
  /\ conn = Connection({}, XTLSModeOrigin, FALSE)
  /\ eargs = [mode |-> XTLSModeOrigin, debug |-> FALSE]
  /\ ecalls = <<>>

IdlePattern ==
  /\ kpc = "start"
  /\ kbase = <<>>
  /\ ktail = <<>>
  /\ kres = NoStripped

IdleLoop ==
  /\ lpc = "idle"
  /\ lpos = 0
  /\ lprev = 0
  /\ lcount = 0
  /\ liters = 0

IdleConn ==
  /\ handshook = FALSE
  /\ cop = NoMethod
  /\ ccalls = <<>>
  /\ cret = [n |-> 0, err |-> Nil]
  /\ hsDone = FALSE
  /\ hsBefore = FALSE
  /\ ncalls = 0

\* nothing has gone through the mutex yet
IdleHistory ==
  /\ lastLocker = NoOne
  /\ lastStamp = ZeroTime
  /\ lastSet = [f \in FieldNames |-> FALSE]

IdleScan ==
  /\ spc = "start"
  /\ res = NoResult
  /\ res2 = NoResult

IdleIO ==
  /\ iopc = "idle"
  /\ wArg = <<>>
  /\ under = NoCall
  /\ ret = NoCall
  /\ log = NoLine
  /\ srcLeft = <<>>
  /\ written = 0
  /\ readErr = Nil
  /\ writeErr = Nil

IdleParse ==
  /\ ppc = "start"
  /\ pIn = <<>>
  /\ pFn = "none"
  /\ pOut = XTLSModeOrigin

IdleState ==
  /\ st = XTLSConnState(FALSE)
  /\ mutex = Free
  /\ tpc = [g \in Procs |-> "idle"]
  /\ targs = [g \in Procs |-> NoArgs]
  /\ pre = [g \in Procs |-> NoState]
  /\ now = 1
  /\ diag = NoLine
  /\ IdleHistory

-----------------------------------------------------------------------------
(* Alert Record Scanner: src/xtls.go *)

KnownAlertHeaders == << <<21, 3, 3>> >>

MaxAlertLen == 256

HeaderLen == 5

IsAlertRecordHeader(b, pos) ==
  IF Len(b) - pos < HeaderLen THEN FALSE
  ELSE \E h \in 1..Len(KnownAlertHeaders) :
         \A i \in 0..(Len(KnownAlertHeaders[h]) - 1) :
           At(b, pos + i) = KnownAlertHeaders[h][i + 1]

\* int(buf[start+3])<<8 | int(buf[start+4])
RecordLength(b, start) == At(b, start + 3) * 256 + At(b, start + 4)

\* the loop's second break condition
NotTrailingRecord_AcceptsZero(start, length, pos) ==
  start + HeaderLen + length # pos \/ length < 0 \/ length > MaxAlertLen

NotTrailingRecord(start, length, pos) ==
  start + HeaderLen + length # pos \/ length <= 0 \/ length > MaxAlertLen

RECURSIVE FindLoop(_, _, _)
FindLoop(b, pos, alertCount) ==
  IF pos >= HeaderLen
  THEN LET start == pos - HeaderLen
       IN  IF ~IsAlertRecordHeader(b, start)
           THEN [head |-> Slice(b, pos), alertCount |-> alertCount]
           ELSE IF NotTrailingRecord(start, RecordLength(b, start), pos)
                THEN [head |-> Slice(b, pos), alertCount |-> alertCount]
                ELSE FindLoop(b, start, alertCount + 1)
  ELSE [head |-> Slice(b, pos), alertCount |-> alertCount]

\* one pass of the loop body that also takes a header declaring length 0
FindAllTrailingAlerts_Once(b) ==
  LET pos == Len(b)
      start == pos - HeaderLen
  IN  IF pos >= HeaderLen /\ IsAlertRecordHeader(b, start)
         /\ ~NotTrailingRecord_AcceptsZero(start, RecordLength(b, start), pos)
      THEN [head |-> Slice(b, start), alertCount |-> 1]
      ELSE [head |-> b, alertCount |-> 0]

FindAllTrailingAlerts(b) == FindLoop(b, Len(b), 0)

RemoveAllTrailingAlerts(data) == FindAllTrailingAlerts(data)

-----------------------------------------------------------------------------
(* Mode parsing: src/xtls.go ParseXTLSMode, src/unnamed/part_000
   XTLSModeFromString.  A string is a sequence of one-character strings. *)

LitDirect == <<"D", "i", "r", "e", "c", "t">>
LitDirectLower == <<"d", "i", "r", "e", "c", "t">>
LitDirectUpper == <<"D", "I", "R", "E", "C", "T">>
LitOrigin == <<"O", "r", "i", "g", "i", "n">>
LitOriginLower == <<"o", "r", "i", "g", "i", "n">>
LitOriginUpper == <<"O", "R", "I", "G", "I", "N">>

ParseXTLSMode_DefaultDirect(s) ==
  CASE s \in {LitOrigin, LitOriginLower, LitOriginUpper} -> XTLSModeOrigin
    [] OTHER -> XTLSModeDirect

ParseXTLSMode(s) ==
  CASE s \in {LitDirect, LitDirectLower, LitDirectUpper} -> XTLSModeDirect
    [] s \in {LitOrigin, LitOriginLower, LitOriginUpper} -> XTLSModeOrigin
    [] OTHER -> XTLSModeOrigin

XTLSModeFromString(s) ==
  CASE s \in {LitOrigin, LitOriginLower, LitOriginUpper} -> XTLSModeOrigin
    [] s \in {LitDirect, LitDirectLower, LitDirectUpper} -> XTLSModeDirect
    [] OTHER -> XTLSModeOrigin

\* upper-case form of the lower-case letters the inputs are made of
Upper ==
  [c \in {"a", "b", "c", "d", "e", "g", "i", "l", "n", "o", "r", "s", "t", "u", "v"} |->
     CASE c = "a" -> "A" [] c = "b" -> "B" [] c = "c" -> "C" [] c = "d" -> "D"
       [] c = "e" -> "E" [] c = "g" -> "G" [] c = "i" -> "I" [] c = "l" -> "L"
       [] c = "n" -> "N" [] c = "o" -> "O" [] c = "r" -> "R" [] c = "s" -> "S"
       [] c = "t" -> "T" [] c = "u" -> "U" [] c = "v" -> "V"]

\* every way of writing the lower-case word w in mixed case
RECURSIVE Casings(_)
Casings(w) ==
  IF w = <<>> THEN {<<>>}
  ELSE {<<c>> \o rest : c \in {Head(w), Upper[Head(w)]}, rest \in Casings(Tail(w))}

Words ==
  { LitDirectLower, LitOriginLower,
    <<>>,
    <<"b", "o", "g", "u", "s">>,
    <<"n", "o", "t", "v", "a", "l", "i", "d">>,
    <<"d", "i", "r", "e", "c">>,
    <<"d", "i", "r", "e", "c", "t", "s">>,
    <<"o", "r", "i", "g", "i", "n", "s">>,
    <<"d">> }

ParseInputs == UNION {Casings(w) : w \in Words}

InitParse ==
  /\ pIn \in ParseInputs
  /\ ppc = "start"
  /\ pFn = "none"
  /\ pOut = XTLSModeOrigin
  /\ buf = <<>> /\ payload = <<>> /\ recs = <<>>
  /\ IdleScan
  /\ IdleIO
  /\ IdleState
  /\ IdleEnable
  /\ IdlePattern
  /\ IdleLoop
  /\ IdleConn

CallParseXTLSMode ==
  /\ ppc = "start"
  /\ pOut' = ParseXTLSMode(pIn)
  /\ pFn' = "ParseXTLSMode"
  /\ ppc' = "parsed"
  /\ UNCHANGED <<pIn, scanVars, ioVars, stateVars, enableVars, patVars, loopVars, connVars>>

CallXTLSModeFromString ==
  /\ ppc = "start"
  /\ pOut' = XTLSModeFromString(pIn)
  /\ pFn' = "XTLSModeFromString"
  /\ ppc' = "parsed"
  /\ UNCHANGED <<pIn, scanVars, ioVars, stateVars, enableVars, patVars, loopVars, connVars>>

NextParse ==
  \/ CallParseXTLSMode
  \/ CallXTLSModeFromString

SpecParse == InitParse /\ [][NextParse]_vars

-----------------------------------------------------------------------------
(* Mode State Tracker: src/xtls.go XTLSConnState, UpdateXTLSState,
   DumpXTLSState (src/unnamed/part_000: XTLSStateTransition, XTLSDumpState) *)

\* the switch of UpdateXTLSState
SwitchField_ForcesBypassOff(s, field, value) ==
  CASE field = "DirectReady" -> [s EXCEPT !.DirectReady = value]
    [] field = "OriginFallback" -> [s EXCEPT !.OriginFallback = value]
    [] field = "ReadBypass" -> [s EXCEPT !.ReadBypass = value]
    [] field = "WriteBypass" -> [s EXCEPT !.WriteBypass = value]
    [] OTHER -> [s EXCEPT !.ReadBypass = FALSE, !.WriteBypass = FALSE]

\* the OriginFallback case also switches both bypass flags off
SwitchField_FallbackClearsBypass(s, field, value) ==
  CASE field = "DirectReady" -> [s EXCEPT !.DirectReady = value]
    [] field = "OriginFallback" ->
         IF value
         THEN [s EXCEPT !.OriginFallback = value, !.ReadBypass = FALSE, !.WriteBypass = FALSE]
         ELSE [s EXCEPT !.OriginFallback = value]
    [] field = "ReadBypass" -> [s EXCEPT !.ReadBypass = value]
    [] field = "WriteBypass" -> [s EXCEPT !.WriteBypass = value]
    [] OTHER -> s

\* the ReadBypass case assigns the field of the case below it
SwitchField_CopyPaste(s, field, value) ==
  CASE field = "DirectReady" -> [s EXCEPT !.DirectReady = value]
    [] field = "OriginFallback" -> [s EXCEPT !.OriginFallback = value]
    [] field = "ReadBypass" -> [s EXCEPT !.WriteBypass = value]
    [] field = "WriteBypass" -> [s EXCEPT !.WriteBypass = value]
    [] OTHER -> s

SwitchField(s, field, value) ==
  CASE field = "DirectReady" -> [s EXCEPT !.DirectReady = value]
    [] field = "OriginFallback" -> [s EXCEPT !.OriginFallback = value]
    [] field = "ReadBypass" -> [s EXCEPT !.ReadBypass = value]
    [] field = "WriteBypass" -> [s EXCEPT !.WriteBypass = value]
    [] OTHER -> s

\* state.LastTransition = time.Now()
StampTransition(s, t) == [s EXCEPT !.LastTransition = t]

\* sync.Mutex: Lock() returns only while no one holds the mutex
TryLock_NoExclusion(m) == TRUE

TryLock(m) == m = Free

\* UpdateXTLSState(state, field, value) is called and reaches state.Lock()
UpdateCall(g) ==
  /\ tpc[g] = "idle"
  /\ tpc' = [tpc EXCEPT ![g] = "lock"]
  /\ UNCHANGED <<st, mutex, targs, pre, now, diag, lastLocker, lastStamp, lastSet>>
  /\ UNCHANGED <<scanVars, ioVars, parseVars, enableVars, patVars, loopVars, connVars>>

\* state.Lock() returns to the call UpdateXTLSState(state, field, value)
UpdateLock(g, field, value) ==
  /\ tpc[g] = "lock"
  /\ TryLock(mutex)
  /\ mutex' = g
  /\ lastLocker' = g
  /\ lastSet' = IF field \in FieldNames THEN [lastSet EXCEPT ![field] = value] ELSE lastSet
  /\ targs' = [targs EXCEPT ![g] = [field |-> field, value |-> value]]
  /\ pre' = [pre EXCEPT ![g] = st]
  /\ tpc' = [tpc EXCEPT ![g] = "stamp"]
  /\ diag' = NoLine
  /\ UNCHANGED <<st, now, lastStamp>>
  /\ UNCHANGED <<scanVars, ioVars, parseVars, enableVars, patVars, loopVars, connVars>>

UpdateStamp(g) ==
  /\ tpc[g] = "stamp"
  /\ st' = StampTransition(st, now)
  /\ lastStamp' = IF g = lastLocker THEN now ELSE lastStamp
  /\ tpc' = [tpc EXCEPT ![g] = "switch"]
  /\ UNCHANGED <<mutex, targs, pre, now, diag, lastLocker, lastSet>>
  /\ UNCHANGED <<scanVars, ioVars, parseVars, enableVars, patVars, loopVars, connVars>>

UpdateSwitch(g) ==
  /\ tpc[g] = "switch"
  /\ st' = SwitchField(st, targs[g].field, targs[g].value)
  /\ tpc' = [tpc EXCEPT ![g] = "debug"]
  /\ UNCHANGED <<mutex, targs, pre, now, diag, lastLocker, lastStamp, lastSet>>
  /\ UNCHANGED <<scanVars, ioVars, parseVars, enableVars, patVars, loopVars, connVars>>

\* the diagnostic line, then the deferred state.Unlock()
UpdateReturn(g) ==
  /\ tpc[g] = "debug"
  /\ diag' = IF st.Debug
             THEN <<"State update", targs[g].field, targs[g].value, st.LastTransition>>
             ELSE diag
  /\ mutex' = Free
  /\ tpc' = [tpc EXCEPT ![g] = "idle"]
  /\ targs' = [targs EXCEPT ![g] = NoArgs]
  /\ pre' = [pre EXCEPT ![g] = NoState]
  /\ UNCHANGED <<st, now, lastLocker, lastStamp, lastSet>>
  /\ UNCHANGED <<scanVars, ioVars, parseVars, enableVars, patVars, loopVars, connVars>>

\* DumpXTLSState(state) is called and reaches state.Lock()
DumpCall(g) ==
  /\ tpc[g] = "idle"
  /\ tpc' = [tpc EXCEPT ![g] = "dumplock"]
  /\ UNCHANGED <<st, mutex, targs, pre, now, diag, lastLocker, lastStamp, lastSet>>
  /\ UNCHANGED <<scanVars, ioVars, parseVars, enableVars, patVars, loopVars, connVars>>

DumpLock(g) ==
  /\ tpc[g] = "dumplock"
  /\ TryLock(mutex)
  /\ mutex' = g
  /\ tpc' = [tpc EXCEPT ![g] = "dump"]
  /\ diag' = NoLine
  /\ UNCHANGED <<st, targs, pre, now, lastLocker, lastStamp, lastSet>>
  /\ UNCHANGED <<scanVars, ioVars, parseVars, enableVars, patVars, loopVars, connVars>>

\* prints the state, then the deferred state.Unlock()
DumpReturn(g) ==
  /\ tpc[g] = "dump"
  /\ diag' = <<"Conn State", st>>
  /\ mutex' = Free
  /\ tpc' = [tpc EXCEPT ![g] = "idle"]
  /\ UNCHANGED <<st, targs, pre, now, lastLocker, lastStamp, lastSet>>
  /\ UNCHANGED <<scanVars, ioVars, parseVars, enableVars, patVars, loopVars, connVars>>

\* the wall clock advances
Tick ==
  /\ now < MaxTime
  /\ now' = now + 1
  /\ UNCHANGED <<st, mutex, tpc, targs, pre, diag, lastLocker, lastStamp, lastSet>>
  /\ UNCHANGED <<scanVars, ioVars, parseVars, enableVars, patVars, loopVars, connVars>>

InitState ==
  /\ st \in {XTLSConnState(d) : d \in BOOLEAN}
  /\ mutex = Free
  /\ tpc = [g \in Procs |-> "idle"]
  /\ targs = [g \in Procs |-> NoArgs]
  /\ pre = [g \in Procs |-> NoState]
  /\ now = 1
  /\ diag = NoLine
  /\ IdleHistory
  /\ buf = <<>> /\ payload = <<>> /\ recs = <<>>
  /\ IdleScan
  /\ IdleIO
  /\ IdleParse
  /\ IdleEnable
  /\ IdlePattern
  /\ IdleLoop
  /\ IdleConn

NextState ==
  \/ \E g \in Procs : UpdateCall(g)
  \/ \E g \in Procs, field \in FieldInputs, value \in BOOLEAN : UpdateLock(g, field, value)
  \/ \E g \in Procs : UpdateStamp(g)
  \/ \E g \in Procs : UpdateSwitch(g)
  \/ \E g \in Procs : UpdateReturn(g)
  \/ \E g \in Procs : DumpCall(g)
  \/ \E g \in Procs : DumpLock(g)
  \/ \E g \in Procs : DumpReturn(g)
  \/ Tick

SpecState == InitState /\ [][NextState]_vars

\* N goroutines call UpdateXTLSState at the same time, each with its own
\* flag and the value true, while one more calls DumpXTLSState; a goroutine
\* is named by the flag it sets
FlagOrder == <<"DirectReady", "OriginFallback", "ReadBypass", "WriteBypass">>

Workers == {FlagOrder[i] : i \in 1..NumWorkers}

Dumper == "dumper"

InitAtomic ==
  /\ st \in {XTLSConnState(d) : d \in BOOLEAN}
  /\ mutex = Free
  /\ tpc = [g \in Workers \cup {Dumper} |-> IF g = Dumper THEN "dumplock" ELSE "lock"]
  /\ targs = [g \in Workers \cup {Dumper} |-> NoArgs]
  /\ pre = [g \in Workers \cup {Dumper} |-> NoState]
  /\ now = 1
  /\ diag = NoLine
  /\ IdleHistory
  /\ buf = <<>> /\ payload = <<>> /\ recs = <<>>
  /\ IdleScan
  /\ IdleIO
  /\ IdleParse
  /\ IdleEnable
  /\ IdlePattern
  /\ IdleLoop
  /\ IdleConn

NextAtomic ==
  \/ \E g \in Workers : UpdateLock(g, g, TRUE)
  \/ \E g \in Workers : UpdateStamp(g)
  \/ \E g \in Workers : UpdateSwitch(g)
  \/ \E g \in Workers : UpdateReturn(g)
  \/ DumpLock(Dumper)
  \/ DumpReturn(Dumper)
  \/ Tick

SpecAtomic == InitAtomic /\ [][NextAtomic]_vars

-----------------------------------------------------------------------------
(* Direct write / read / copy helpers: src/xtls.go *)

\* XTLSDebug: prints the line when enabled, else leaves the output alone
XTLSDebug(enabled, line, old) == IF enabled THEN line ELSE old

\* what XTLSWriteDirect returns once conn.Write(main) has returned (n, err)
WriteDirectResult_AddsWhole(b, main, n, err) ==
  IF err # Nil THEN [n |-> n, err |-> err]
  ELSE [n |-> n + Len(b), err |-> Nil]

WriteDirectResult_ZeroOnError(b, main, n, err) ==
  IF err # Nil THEN [n |-> 0, err |-> err]
  ELSE [n |-> n + Len(b) - Len(main), err |-> Nil]

WriteDirectResult(b, main, n, err) ==
  IF err # Nil THEN [n |-> n, err |-> err]
  ELSE [n |-> n + Len(b) - Len(main), err |-> Nil]

\* what XTLSReadDirect returns once conn.Read(b) has returned (n, err)
ReadDirectResult(n, err) == [n |-> n, err |-> err]

\* what XTLSCopyConn returns when the loop ends on dst.Write failing with ew
CopyWriteFailed(total, ew) == [n |-> total, err |-> ew]

\* what XTLSCopyConn returns when the loop ends on src.Read returning er # nil
CopyReadEnded(total, er) == [n |-> total, err |-> Nil]

\* XTLSWriteDirect(conn, buf, debug); conn.Write returns (n, err)
XTLSWriteDirect(debug, n, err) ==
  /\ iopc = "idle"
  /\ LET r == RemoveAllTrailingAlerts(buf)
         main == r.head
         count == r.alertCount
     IN  /\ n \in 0..Len(main)
         /\ log' = IF count > 0 /\ debug
                   THEN XTLSDebug(debug, <<"Removed trailing alert record(s)", count>>, log)
                   ELSE log
         /\ wArg' = main
         /\ under' = [n |-> n, err |-> err]
         /\ ret' = WriteDirectResult(buf, main, n, err)
  /\ iopc' = "wrote"
  /\ UNCHANGED <<srcLeft, written, readErr, writeErr>>
  /\ UNCHANGED <<scanVars, parseVars, stateVars, enableVars, patVars, loopVars, connVars>>

\* XTLSReadDirect(conn, b); conn.Read returns (n, err)
XTLSReadDirect(n, err) ==
  /\ iopc = "idle"
  /\ n \in 0..Len(srcLeft)
  /\ under' = [n |-> n, err |-> err]
  /\ ret' = ReadDirectResult(n, err)
  /\ srcLeft' = SubSeq(srcLeft, n + 1, Len(srcLeft))
  /\ iopc' = "read"
  /\ UNCHANGED <<wArg, log, written, readErr, writeErr>>
  /\ UNCHANGED <<scanVars, parseVars, stateVars, enableVars, patVars, loopVars, connVars>>

\* one pass of XTLSCopyConn's loop: src.Read returns (nr, er) and, when
\* nr > 0, dst.Write returns (nw, ew)
XTLSCopyConn(debug, nr, er, nw, ew) ==
  /\ iopc \in {"idle", "copying"}
  /\ nr \in 0..Len(srcLeft)
  /\ srcLeft' = SubSeq(srcLeft, nr + 1, Len(srcLeft))
  /\ readErr' = er
  /\ LET data == RemoveAllTrailingAlerts(Slice(srcLeft, nr)).head
         total == IF nr > 0 THEN written + nw ELSE written
         failed == nr > 0 /\ ew # Nil
     IN  /\ IF nr > 0 THEN nw \in 0..Len(data) ELSE nw = 0 /\ ew = Nil
         /\ written' = total
         /\ writeErr' = IF nr > 0 THEN ew ELSE writeErr
         /\ under' = IF nr > 0 THEN [n |-> nw, err |-> ew] ELSE [n |-> nr, err |-> er]
         /\ IF failed
            THEN /\ ret' = CopyWriteFailed(total, ew)
                 /\ iopc' = "copied"
                 /\ log' = log
            ELSE IF er # Nil
            THEN /\ ret' = CopyReadEnded(total, er)
                 /\ iopc' = "copied"
                 /\ log' = IF er # EOF
                           THEN XTLSDebug(debug, <<"XTLSCopyConn read error", er>>, log)
                           ELSE log
            ELSE /\ ret' = ret
                 /\ iopc' = "copying"
                 /\ log' = log
  /\ UNCHANGED wArg
  /\ UNCHANGED <<scanVars, parseVars, stateVars, enableVars, patVars, loopVars, connVars>>

WriteRecLens == {0, 1, 2}

InitWrite ==
  /\ payload \in SeqsUpTo(PayloadBytes, MaxWritePayloadLen) \cup {HelloWorld}
  /\ recs \in SeqsUpTo(WriteRecLens, MaxWriteAlerts)
  /\ buf = payload \o Records(recs)
  /\ spc = "start" /\ res = NoResult /\ res2 = NoResult
  /\ IdleIO
  /\ IdleParse
  /\ IdleState
  /\ IdleEnable
  /\ IdlePattern
  /\ IdleLoop
  /\ IdleConn

NextWrite ==
  \E debug \in BOOLEAN, err \in {Nil, ErrWrite}, n \in 0..(Len(buf)) :
    XTLSWriteDirect(debug, n, err)

SpecWrite == InitWrite /\ [][NextWrite]_vars

InitCopy ==
  /\ payload \in SeqsUpTo(PayloadBytes, MaxCopyPayloadLen)
  /\ recs \in SeqsUpTo(WriteRecLens, MaxCopyAlerts)
  /\ buf = payload \o Records(recs)
  /\ spc = "start" /\ res = NoResult /\ res2 = NoResult
  /\ iopc = "idle"
  /\ wArg = <<>>
  /\ under = NoCall
  /\ ret = NoCall
  /\ log = NoLine
  /\ srcLeft = buf
  /\ written = 0
  /\ readErr = Nil
  /\ writeErr = Nil
  /\ IdleParse
  /\ IdleState
  /\ IdleEnable
  /\ IdlePattern
  /\ IdleLoop
  /\ IdleConn

NextCopy ==
  \/ \E n \in 0..Len(srcLeft), err \in {Nil, EOF, ErrRead} : XTLSReadDirect(n, err)
  \/ \E debug \in BOOLEAN, nr \in 0..Len(srcLeft), er \in {Nil, EOF, ErrRead},
        nw \in 0..Len(srcLeft), ew \in {Nil, ErrWrite} :
       XTLSCopyConn(debug, nr, er, nw, ew)

SpecCopy == InitCopy /\ [][NextCopy]_vars

-----------------------------------------------------------------------------
(* Scanner driver: the scanner applied to a buffer, then to its own result *)

Payloads == SeqsUpTo(PayloadBytes, MaxPayloadLen) \cup {HelloWorld}

InputsScan ==
  /\ payload \in Payloads
  /\ recs \in SeqsUpTo(RecLens, MaxAlerts)
  /\ buf = payload \o Records(recs)

InitScan ==
  /\ InputsScan
  /\ IdleScan
  /\ IdleIO
  /\ IdleParse
  /\ IdleState
  /\ IdleEnable
  /\ IdlePattern
  /\ IdleLoop
  /\ IdleConn

Strip ==
  /\ spc = "start"
  /\ res' = RemoveAllTrailingAlerts(buf)
  /\ spc' = "stripped"
  /\ UNCHANGED <<buf, payload, recs, res2>>
  /\ UNCHANGED <<ioVars, parseVars, stateVars, enableVars, patVars, loopVars, connVars>>

StripAgain ==
  /\ spc = "stripped"
  /\ res2' = RemoveAllTrailingAlerts(res.head)
  /\ spc' = "restripped"
  /\ UNCHANGED <<buf, payload, recs, res>>
  /\ UNCHANGED <<ioVars, parseVars, stateVars, enableVars, patVars, loopVars, connVars>>

NextScan ==
  \/ Strip
  \/ StripAgain

SpecScan == InitScan /\ [][NextScan]_vars

-----------------------------------------------------------------------------
(* Properties of the scanner and of the helpers *)

\* a well-formed alert record starts at position p of b and ends exactly at
\* the end of b: header 0x15 0x03 0x03, big-endian length L, 1 <= L <= 256
WellFormedRecordAt(b, p) ==
  /\ p >= 0
  /\ p + 5 <= Len(b)
  /\ At(b, p) = 21 /\ At(b, p + 1) = 3 /\ At(b, p + 2) = 3
  /\ LET L == At(b, p + 3) * 256 + At(b, p + 4)
     IN  L >= 1 /\ L <= 256 /\ p + 5 + L = Len(b)

HasTrailingAlert(b) == \E p \in 0..Len(b) : WellFormedRecordAt(b, p)

\* buf is payload followed by k >= 1 well-formed records
StackedAlerts ==
  /\ Len(recs) >= 1
  /\ \A i \in 1..Len(recs) : recs[i] >= 1 /\ recs[i] <= 256

\* C1: a payload without a strippable tail, followed by k >= 1 well-formed
\* alert records, is stripped to (payload, k).
C1_StripsAllStackedAlerts ==
  (spc # "start" /\ StackedAlerts /\ ~HasTrailingAlert(payload))
    => res = [head |-> payload, alertCount |-> Len(recs)]

\* C2: XTLSWriteDirect hands conn.Write exactly the payload when the buffer
\* is the payload followed by one or more well-formed alert records.
C2_OnlyPayloadReachesSink ==
  (iopc = "wrote" /\ StackedAlerts) => wArg = payload

\* C3: when conn.Write returns (n, nil), XTLSWriteDirect returns
\* (n + len(buf) - len(stripped), nil); a complete underlying write
\* is reported as len(buf).
C3_ReportsWrittenPlusRemoved ==
  (iopc = "wrote" /\ under.err = Nil)
    => /\ ret = [n |-> under.n + (Len(buf) - Len(wArg)), err |-> Nil]
       /\ (under.n = Len(wArg) => ret.n = Len(buf))

C3_Witness ==
  /\ iopc = "wrote"
  /\ under.err = Nil
  /\ StackedAlerts
  /\ under.n = Len(wArg)
  /\ ret.n = Len(buf)

\* C4: a buffer whose tail is no matching alert record comes back unchanged
\* with count 0.
C4_NoAlertUnchanged ==
  (spc # "start" /\ ~HasTrailingAlert(buf))
    => res = [head |-> buf, alertCount |-> 0]

\* the buffer ends in a header that declares length 0: not a matching record
C4_Witness ==
  /\ spc = "stripped"
  /\ ~HasTrailingAlert(buf)
  /\ Len(buf) >= 5
  /\ IsAlertRecordHeader(buf, Len(buf) - 5)
  /\ res = [head |-> buf, alertCount |-> 0]

\* C5: stripping the stripped buffer again removes nothing and returns the
\* same bytes.
C5_Idempotent ==
  spc = "restripped" => res2 = [head |-> res.head, alertCount |-> 0]

C5_Witness ==
  /\ spc = "restripped"
  /\ Len(recs) >= 2
  /\ res2 = [head |-> res.head, alertCount |-> 0]

\* C6: XTLSCopyConn returns the error of a failed dst.Write, and the error of
\* a failed src.Read other than end-of-stream; XTLSReadDirect returns the
\* (n, err) of the underlying Read.
C6_TransportErrorsReturned ==
  /\ iopc = "read" => ret = under
  /\ iopc = "copied" =>
       /\ writeErr # Nil => ret.err = writeErr
       /\ (writeErr = Nil /\ readErr \notin {Nil, EOF}) => ret.err = readErr

\* C7: when conn.Write fails, XTLSWriteDirect returns the underlying count
\* and the same error.
C7_WriteErrorPassedThrough ==
  (iopc = "wrote" /\ under.err # Nil) => ret = under

C7_Witness ==
  /\ iopc = "wrote"
  /\ under.err = ErrWrite
  /\ under.n > 0
  /\ Len(recs) >= 1
  /\ ret = under

-----------------------------------------------------------------------------
(* Properties of the mode parsers and of the state tracker *)

\* the lower-case form of a character
Lower(c) ==
  IF \E l \in DOMAIN Upper : Upper[l] = c
  THEN CHOOSE l \in DOMAIN Upper : Upper[l] = c
  ELSE c

\* s equals the lower-case word w when letter case is ignored
EqualFold(s, w) ==
  /\ Len(s) = Len(w)
  /\ \A i \in 1..Len(w) : Lower(s[i]) = w[i]

\* C8: every casing of "direct" parses to Direct and every casing of "origin"
\* parses to Origin.
C8_CaseInsensitiveMatch ==
  ppc = "parsed" =>
    /\ EqualFold(pIn, LitDirectLower) => pOut = XTLSModeDirect
    /\ EqualFold(pIn, LitOriginLower) => pOut = XTLSModeOrigin

\* C9: every string that is not a casing of "direct" parses to Origin.
C9_FailSafeOrigin ==
  (ppc = "parsed" /\ ~EqualFold(pIn, LitDirectLower)) => pOut = XTLSModeOrigin

C9_Witness ==
  /\ ppc = "parsed"
  /\ pFn = "ParseXTLSMode"
  /\ pIn = <<"b", "o", "g", "u", "s">>
  /\ pOut = XTLSModeOrigin

\* C10: a transition with an unknown field name has, when it is about to
\* return, left every attribute of the state (LastTransition included) as
\* it was when the call took the mutex.
C10_UnknownFieldIsNoOp ==
  \A g \in Procs :
    (tpc[g] = "debug" /\ targs[g].field \notin FieldNames) => st = pre[g]

-----------------------------------------------------------------------------
(* Properties of the state tracker under concurrent and repeated calls *)

\* goroutine g is between state.Lock() and the deferred state.Unlock()
InCritical(g) == tpc[g] \in {"stamp", "switch", "debug", "dump"}

\* C11: no two goroutines are in a critical section of the state at once;
\* once the N concurrent transitions, each setting its own flag to true,
\* have all returned, all N flags are true and LastTransition is the time
\* read by the transition that took the mutex last.
C11_AtomicTransitions ==
  /\ \A g \in DOMAIN tpc, h \in DOMAIN tpc : (InCritical(g) /\ InCritical(h)) => g = h
  /\ (\A g \in Workers : tpc[g] = "idle") =>
       /\ \A g \in Workers : st[g] = TRUE
       /\ lastLocker \in Workers
       /\ st.LastTransition = lastStamp

C11_Witness ==
  /\ \A g \in Workers \cup {Dumper} : tpc[g] = "idle"
  /\ \A g \in Workers : st[g] = TRUE
  /\ st.LastTransition = lastStamp
  /\ lastStamp > 1
  /\ diag # NoLine

\* C12: whenever OriginFallback is true, both bypass flags are false.
C12_FallbackForcesBypassOff ==
  st.OriginFallback => (~st.ReadBypass /\ ~st.WriteBypass)

\* C12 as amended: a transition naming OriginFallback sets OriginFallback to
\* its value and leaves ReadBypass and WriteBypass as they were when the call
\* took the mutex.
C12_FallbackLeavesBypass ==
  \A g \in Procs :
    (tpc[g] = "debug" /\ targs[g].field = "OriginFallback") =>
      /\ st.OriginFallback = targs[g].value
      /\ st.ReadBypass = pre[g].ReadBypass
      /\ st.WriteBypass = pre[g].WriteBypass

C12_Witness ==
  \E g \in Procs :
    /\ tpc[g] = "debug"
    /\ targs[g] = [field |-> "OriginFallback", value |-> TRUE]
    /\ st.OriginFallback
    /\ st.ReadBypass
    /\ st.WriteBypass

\* C13: a transition with a recognised name, when it is about to return, has
\* set that one flag to its value and LastTransition to the time it read, and
\* left every other attribute as it was; between calls each flag holds the
\* value of the last transition that named it (false if none did).
C13_FrameEffect ==
  /\ \A g \in Procs :
       (tpc[g] = "debug" /\ targs[g].field \in FieldNames) =>
         st = [pre[g] EXCEPT ![targs[g].field] = targs[g].value,
                             !.LastTransition = lastStamp]
  /\ mutex = Free => \A f \in FieldNames : st[f] = lastSet[f]

C13_Witness ==
  \E g \in Procs :
    /\ tpc[g] = "debug"
    /\ targs[g] = [field |-> "ReadBypass", value |-> FALSE]
    /\ pre[g].ReadBypass
    /\ pre[g].WriteBypass
    /\ st.WriteBypass
    /\ ~st.ReadBypass
    /\ st.LastTransition > pre[g].LastTransition

-----------------------------------------------------------------------------
(* Enabling XTLS on a connection: src/xtls.go XTLSConn, EnableXTLS
   (src/unnamed/part_000: EnableXTLSOnConn); the connection's methods are
   those of the test's DummyConn *)

\* the method set of the interface of src/unnamed/part_001
XTLSConnMethods_WithoutState == {"SetXTLSMode", "GetXTLSMode", "EnableXTLSDebug"}

\* the method set of interface XTLSConn
XTLSConnMethods == {"SetXTLSMode", "GetXTLSMode", "EnableXTLSDebug", "GetXTLSState"}

\* the type assertion conn.(XTLSConn)
IsXTLSConn(c) == XTLSConnMethods \subseteq c.methods

\* func (d *DummyConn) SetXTLSMode(mode XTLSMode) { d.mode = mode }
SetXTLSMode(c, mode) == [c EXCEPT !.mode = mode]

\* func (d *DummyConn) EnableXTLSDebug(enable bool) { d.debug = enable }
EnableXTLSDebug(c, enable) == [c EXCEPT !.debug = enable]

\* the connection after the call, and the calls made on it
EnableXTLS(c, mode, debug) ==
  IF IsXTLSConn(c)
  THEN [ conn |-> EnableXTLSDebug(SetXTLSMode(c, mode), debug),
         calls |-> << <<"SetXTLSMode", mode>>, <<"EnableXTLSDebug", debug>> >> ]
  ELSE [conn |-> c, calls |-> <<>>]

EnableXTLSOnConn(c, mode, debug) ==
  IF IsXTLSConn(c)
  THEN [ conn |-> EnableXTLSDebug(SetXTLSMode(c, mode), debug),
         calls |-> << <<"SetXTLSMode", mode>>, <<"EnableXTLSDebug", debug>> >> ]
  ELSE [conn |-> c, calls |-> <<>>]

\* methods a connection type may have: those of XTLSConn and Close of net.Conn
ConnMethods == XTLSConnMethods \cup {"Close"}

InitEnable ==
  /\ conn0 \in {Connection(ms, m, d) :
                  ms \in SUBSET ConnMethods, m \in {XTLSModeOrigin, XTLSModeDirect},
                  d \in BOOLEAN}
  /\ conn = conn0
  /\ epc = "start"
  /\ eargs = [mode |-> XTLSModeOrigin, debug |-> FALSE]
  /\ ecalls = <<>>
  /\ buf = <<>> /\ payload = <<>> /\ recs = <<>>
  /\ IdleScan
  /\ IdleIO
  /\ IdleParse
  /\ IdleState
  /\ IdlePattern
  /\ IdleLoop
  /\ IdleConn

CallEnableXTLS(mode, debug) ==
  /\ epc = "start"
  /\ eargs' = [mode |-> mode, debug |-> debug]
  /\ conn' = EnableXTLS(conn, mode, debug).conn
  /\ ecalls' = EnableXTLS(conn, mode, debug).calls
  /\ epc' = "enabled"
  /\ UNCHANGED <<conn0, scanVars, ioVars, parseVars, stateVars, patVars, loopVars, connVars>>

CallEnableXTLSOnConn(mode, debug) ==
  /\ epc = "start"
  /\ eargs' = [mode |-> mode, debug |-> debug]
  /\ conn' = EnableXTLSOnConn(conn, mode, debug).conn
  /\ ecalls' = EnableXTLSOnConn(conn, mode, debug).calls
  /\ epc' = "enabled"
  /\ UNCHANGED <<conn0, scanVars, ioVars, parseVars, stateVars, patVars, loopVars, connVars>>

NextEnable ==
  \/ \E mode \in {XTLSModeOrigin, XTLSModeDirect}, debug \in BOOLEAN :
       CallEnableXTLS(mode, debug)
  \/ \E mode \in {XTLSModeOrigin, XTLSModeDirect}, debug \in BOOLEAN :
       CallEnableXTLSOnConn(mode, debug)

SpecEnable == InitEnable /\ [][NextEnable]_vars

\* the capability set {setMode, getMode, enableDebug, getState}
FullCapability == {"SetXTLSMode", "GetXTLSMode", "EnableXTLSDebug", "GetXTLSState"}

-----------------------------------------------------------------------------
(* The single-pattern stripper: src/unnamed/part_000 XTLSAlertPattern,
   StripTrailingAlert *)

MaxBaseLen == 3

\* bytes of the pattern, and 27 as a byte next to its last one
PatternBytes == {0, 3, 21, 26, 27}

\* var XTLSAlertPattern = []byte{0x15, 0x03, 0x03, 0x00, 0x1a}
XTLSAlertPattern == <<21, 3, 3, 0, 26>>

\* len(b) > len(XTLSAlertPattern) in place of >=
EndsWithAlertPattern_StrictlyLonger(b) ==
  /\ Len(b) > Len(XTLSAlertPattern)
  /\ SubSeq(b, Len(b) - Len(XTLSAlertPattern) + 1, Len(b)) = XTLSAlertPattern

\* len(b) >= len(XTLSAlertPattern) &&
\*   bytes.Equal(b[len(b)-len(XTLSAlertPattern):], XTLSAlertPattern)
EndsWithAlertPattern(b) ==
  /\ Len(b) >= Len(XTLSAlertPattern)
  /\ SubSeq(b, Len(b) - Len(XTLSAlertPattern) + 1, Len(b)) = XTLSAlertPattern

StripTrailingAlert(b) ==
  IF EndsWithAlertPattern(b)
  THEN [stripped |-> Slice(b, Len(b) - Len(XTLSAlertPattern)), removed |-> TRUE]
  ELSE [stripped |-> b, removed |-> FALSE]

\* tails: nothing, the pattern, the pattern short of its first or last byte,
\* the pattern with another last byte, the pattern followed by a byte
Tails ==
  { <<>>, XTLSAlertPattern, SubSeq(XTLSAlertPattern, 2, 5),
    SubSeq(XTLSAlertPattern, 1, 4), <<21, 3, 3, 0, 27>>,
    XTLSAlertPattern \o <<0>> }

InitPattern ==
  /\ kbase \in SeqsUpTo(PatternBytes, MaxBaseLen)
  /\ ktail \in Tails
  /\ kpc = "start"
  /\ kres = NoStripped
  /\ buf = <<>> /\ payload = <<>> /\ recs = <<>>
  /\ IdleScan
  /\ IdleIO
  /\ IdleParse
  /\ IdleState
  /\ IdleEnable
  /\ IdleLoop
  /\ IdleConn

CallStripTrailingAlert ==
  /\ kpc = "start"
  /\ kres' = StripTrailingAlert(kbase \o ktail)
  /\ kpc' = "stripped"
  /\ UNCHANGED <<kbase, ktail, scanVars, ioVars, parseVars, stateVars, enableVars, loopVars, connVars>>

NextPattern == CallStripTrailingAlert

SpecPattern == InitPattern /\ [][NextPattern]_vars

\* the buffer's last five bytes are 0x15 0x03 0x03 0x00 0x1a
EndsWith15030300_1a(b) ==
  /\ Len(b) >= 5
  /\ b[Len(b) - 4] = 21 /\ b[Len(b) - 3] = 3 /\ b[Len(b) - 2] = 3
  /\ b[Len(b) - 1] = 0 /\ b[Len(b)] = 26

\* C15: StripTrailingAlert(b ++ XTLSAlertPattern) = (b, true) for every b,
\* and StripTrailingAlert(b) = (b, false) for every b that does not end with
\* the five bytes 0x15 0x03 0x03 0x00 0x1a, buffers shorter than five bytes
\* included.
C15_StripsOnePattern ==
  kpc = "stripped" =>
    /\ ktail = <<21, 3, 3, 0, 26>> => kres = [stripped |-> kbase, removed |-> TRUE]
    /\ ~EndsWith15030300_1a(kbase \o ktail) =>
         kres = [stripped |-> kbase \o ktail, removed |-> FALSE]

\* the pattern alone is stripped to the empty buffer
C15_Witness ==
  /\ kpc = "stripped"
  /\ kbase = <<>>
  /\ ktail = <<21, 3, 3, 0, 26>>
  /\ kres = [stripped |-> <<>>, removed |-> TRUE]

-----------------------------------------------------------------------------
(* What the scanner may remove *)

\* s is the concatenation of exactly k records, each 0x15 0x03 0x03, a
\* declared length L with 0 < L <= 256, and L bytes of body
RECURSIVE IsRecordStack(_, _)
IsRecordStack(s, k) ==
  IF k = 0 THEN s = <<>>
  ELSE /\ k > 0
       /\ Len(s) >= 5
       /\ s[1] = 21 /\ s[2] = 3 /\ s[3] = 3
       /\ LET L == s[4] * 256 + s[5]
          IN  /\ L > 0 /\ L <= 256
              /\ Len(s) >= 5 + L
              /\ IsRecordStack(SubSeq(s, 6 + L, Len(s)), k - 1)

\* the last appended record declares length 0 or a length above 256
BadTailRecord ==
  /\ Len(recs) >= 1
  /\ (recs[Len(recs)] = 0 \/ recs[Len(recs)] > 256)

\* the buffer ends in a bare header whose declared length runs past the end
ShortTailRecord ==
  /\ recs = <<>>
  /\ Len(buf) >= 5
  /\ buf[Len(buf) - 4] = 21 /\ buf[Len(buf) - 3] = 3 /\ buf[Len(buf) - 2] = 3
  /\ buf[Len(buf) - 1] * 256 + buf[Len(buf)] > 0

\* C16: the buffer RemoveAllTrailingAlerts returns is a prefix of its input,
\* the removed suffix is the concatenation of exactly removedCount well-formed
\* records (0x15 0x03 0x03, 0 < L <= 256, 5 + L bytes each), and a tail record
\* declaring length 0 or more than 256, or not reaching the end of the buffer,
\* stays in the returned buffer.
C16_OnlyWellFormedRemoved ==
  spc # "start" =>
    /\ Len(res.head) <= Len(buf)
    /\ res.head = SubSeq(buf, 1, Len(res.head))
    /\ IsRecordStack(SubSeq(buf, Len(res.head) + 1, Len(buf)), res.alertCount)
    /\ (BadTailRecord \/ ShortTailRecord) => res.head = buf

\* a zero-length record behind a well-formed one, a 257-byte record, and a
\* header cut short: each is left in place
C16_Witness ==
  /\ spc = "stripped"
  /\ \/ recs = <<2, 0>>
     \/ recs = <<257>>
     \/ ShortTailRecord
  /\ res.head = buf
  /\ res.alertCount = 0

-----------------------------------------------------------------------------
(* The loop of FindAllTrailingAlerts, one pass at a time *)

MaxLoopIters == 3

\* a pass that takes a header declaring length 0 and moves pos back by the
\* declared length only
LoopStep_ZeroLengthSpins(b, pos, alertCount) ==
  IF pos >= HeaderLen
  THEN LET start == pos - HeaderLen
       IN  IF ~IsAlertRecordHeader(b, start)
           THEN [pos |-> pos, alertCount |-> alertCount, done |-> TRUE]
           ELSE IF \/ start + HeaderLen + RecordLength(b, start) # pos
                   \/ RecordLength(b, start) > MaxAlertLen
                THEN [pos |-> pos, alertCount |-> alertCount, done |-> TRUE]
                ELSE [pos |-> pos - RecordLength(b, start),
                      alertCount |-> alertCount + 1, done |-> FALSE]
  ELSE [pos |-> pos, alertCount |-> alertCount, done |-> TRUE]

\* the loop test and one pass of the body: the new pos and alertCount, and
\* whether the loop is left
LoopStep(b, pos, alertCount) ==
  IF pos >= HeaderLen
  THEN LET start == pos - HeaderLen
       IN  IF ~IsAlertRecordHeader(b, start)
           THEN [pos |-> pos, alertCount |-> alertCount, done |-> TRUE]
           ELSE IF NotTrailingRecord(start, RecordLength(b, start), pos)
                THEN [pos |-> pos, alertCount |-> alertCount, done |-> TRUE]
                ELSE [pos |-> start, alertCount |-> alertCount + 1, done |-> FALSE]
  ELSE [pos |-> pos, alertCount |-> alertCount, done |-> TRUE]

\* pos := len(buf)
InitLoop ==
  /\ InputsScan
  /\ lpc = "loop"
  /\ lpos = Len(buf)
  /\ lprev = Len(buf)
  /\ lcount = 0
  /\ liters = 0
  /\ IdleScan
  /\ IdleIO
  /\ IdleParse
  /\ IdleState
  /\ IdleEnable
  /\ IdlePattern
  /\ IdleConn

LoopIteration ==
  /\ lpc = "loop"
  /\ liters < MaxLoopIters
  /\ lprev' = lpos
  /\ lpos' = LoopStep(buf, lpos, lcount).pos
  /\ lcount' = LoopStep(buf, lpos, lcount).alertCount
  /\ liters' = IF lpos >= HeaderLen THEN liters + 1 ELSE liters
  /\ lpc' = IF LoopStep(buf, lpos, lcount).done THEN "done" ELSE "loop"
  /\ UNCHANGED <<scanVars, ioVars, parseVars, stateVars, enableVars, patVars, connVars>>

NextLoop == LoopIteration

SpecLoop == InitLoop /\ [][NextLoop]_vars

\* a call that has started keeps running
FairSpecLoop == SpecLoop /\ WF_vars(NextLoop)

\* the loop returns what FindAllTrailingAlerts returns
LoopAgreesWithScanner ==
  lpc = "done" =>
    [head |-> Slice(buf, lpos), alertCount |-> lcount] = FindAllTrailingAlerts(buf)

\* a pass that continues moves pos back by at least 5, pos stays within
\* 0..len(buf), there are at most len(buf) / 5 passes, and the model's cap on
\* passes is never what stops the loop
LoopBounded ==
  /\ lpos >= 0
  /\ lpos <= Len(buf)
  /\ lpos = lprev \/ lpos <= lprev - 5
  /\ lpc = "loop" => (liters = 0 \/ lpos <= lprev - 5)
  /\ liters <= Len(buf) \div 5
  /\ lpc = "loop" => liters < MaxLoopIters

\* C17: the loop of FindAllTrailingAlerts ends on every input buffer; each
\* pass that continues moves the scan position back by at least 5 bytes, the
\* position never goes below 0, and there are at most len(buf) / 5 passes.
C17_LoopTerminates == []LoopBounded /\ <>(lpc = "done")

\* a buffer ending in a header that declares length 0: one pass, then the
\* loop is left with pos where it was
C17_Witness ==
  /\ lpc = "done"
  /\ Len(recs) >= 1
  /\ recs[Len(recs)] = 0
  /\ liters = 1
  /\ lpos = Len(buf)

-----------------------------------------------------------------------------
(* The pkg/xtls Conn wrapper: src/pkg/xtls.go Conn.Handshake, Conn.Read,
   Conn.Write over the embedded nxtls.Conn *)

MaxCalls == 5

MaxIOLen == 2

ErrHandshake == "remote error: tls: handshake failure"

ErrTimeout == "i/o timeout"

\* what the embedded Handshake may return
HandshakeResults == {Nil, ErrHandshake, ErrTimeout}

\* what the embedded Read / Write may return
IOResults == {[n |-> n, err |-> e] : n \in 0..MaxIOLen, e \in {Nil, EOF}}

\* one call on the embedded connection and the error it returned
Called(fn, err) == [fn |-> fn, err |-> err]

\* c.handshook = true whatever the embedded Handshake returned
Handshake_MarksAlways(h, hsErr) ==
  IF h
  THEN [handshook |-> h, calls |-> <<>>, err |-> Nil]
  ELSE [handshook |-> TRUE, calls |-> <<Called("Handshake", hsErr)>>, err |-> hsErr]

\* func (c *Conn) Handshake() error: the handshook field afterwards, the
\* embedded calls made, the error returned
Handshake(h, hsErr) ==
  IF h
  THEN [handshook |-> h, calls |-> <<>>, err |-> Nil]
  ELSE [ handshook |-> IF hsErr = Nil THEN TRUE ELSE h,
         calls |-> <<Called("Handshake", hsErr)>>, err |-> hsErr ]

\* func (c *Conn) Read / Write: fn is the embedded method, io what it returns
ReadWrite(h, fn, hsErr, io) ==
  IF ~h
  THEN LET hs == Handshake(h, hsErr)
       IN  IF hs.err # Nil
           THEN [handshook |-> hs.handshook, calls |-> hs.calls, n |-> 0, err |-> hs.err]
           ELSE [ handshook |-> hs.handshook,
                  calls |-> hs.calls \o <<Called(fn, io.err)>>,
                  n |-> io.n, err |-> io.err ]
  ELSE [handshook |-> h, calls |-> <<Called(fn, io.err)>>, n |-> io.n, err |-> io.err]

\* an embedded Handshake among cs returned nil
HandshakeSucceededIn(cs) ==
  \E i \in DOMAIN cs : cs[i] = Called("Handshake", Nil)

\* NewConn: handshook is the zero value
InitConn ==
  /\ IdleConn
  /\ buf = <<>> /\ payload = <<>> /\ recs = <<>>
  /\ IdleScan
  /\ IdleIO
  /\ IdleParse
  /\ IdleState
  /\ IdleEnable
  /\ IdlePattern
  /\ IdleLoop

ConnHandshake(hsErr) ==
  /\ ncalls < MaxCalls
  /\ ncalls' = ncalls + 1
  /\ cop' = "Handshake"
  /\ hsBefore' = hsDone
  /\ handshook' = Handshake(handshook, hsErr).handshook
  /\ ccalls' = Handshake(handshook, hsErr).calls
  /\ cret' = [n |-> 0, err |-> Handshake(handshook, hsErr).err]
  /\ hsDone' = (hsDone \/ HandshakeSucceededIn(ccalls'))
  /\ UNCHANGED <<scanVars, ioVars, parseVars, stateVars, enableVars, patVars, loopVars>>

ConnRead(hsErr, io) ==
  /\ ncalls < MaxCalls
  /\ ncalls' = ncalls + 1
  /\ cop' = "Read"
  /\ hsBefore' = hsDone
  /\ handshook' = ReadWrite(handshook, "Read", hsErr, io).handshook
  /\ ccalls' = ReadWrite(handshook, "Read", hsErr, io).calls
  /\ cret' = [n |-> ReadWrite(handshook, "Read", hsErr, io).n,
              err |-> ReadWrite(handshook, "Read", hsErr, io).err]
  /\ hsDone' = (hsDone \/ HandshakeSucceededIn(ccalls'))
  /\ UNCHANGED <<scanVars, ioVars, parseVars, stateVars, enableVars, patVars, loopVars>>

ConnWrite(hsErr, io) ==
  /\ ncalls < MaxCalls
  /\ ncalls' = ncalls + 1
  /\ cop' = "Write"
  /\ hsBefore' = hsDone
  /\ handshook' = ReadWrite(handshook, "Write", hsErr, io).handshook
  /\ ccalls' = ReadWrite(handshook, "Write", hsErr, io).calls
  /\ cret' = [n |-> ReadWrite(handshook, "Write", hsErr, io).n,
              err |-> ReadWrite(handshook, "Write", hsErr, io).err]
  /\ hsDone' = (hsDone \/ HandshakeSucceededIn(ccalls'))
  /\ UNCHANGED <<scanVars, ioVars, parseVars, stateVars, enableVars, patVars, loopVars>>

NextConn ==
  \/ \E hsErr \in HandshakeResults : ConnHandshake(hsErr)
  \/ \E hsErr \in HandshakeResults, io \in IOResults : ConnRead(hsErr, io)
  \/ \E hsErr \in HandshakeResults, io \in IOResults : ConnWrite(hsErr, io)

SpecConn == InitConn /\ [][NextConn]_vars

\* the last method's embedded handshake returned an error
HandshakeFailed ==
  \E i \in DOMAIN ccalls : ccalls[i].fn = "Handshake" /\ ccalls[i].err # Nil

\* C18: over any sequence of Handshake, Read and Write calls on the wrapper,
\* the embedded Read or Write is only invoked after an embedded Handshake has
\* returned nil; once one has returned nil the embedded Handshake is not
\* invoked again; when the handshake fails, Read and Write return (0, err)
\* with that error and invoke no embedded Read or Write, and as long as no
\* handshake has succeeded every call begins with a handshake attempt.
C18_HandshakeBeforeIO ==
  /\ \A i \in DOMAIN ccalls :
       ccalls[i].fn \in {"Read", "Write"} =>
         \/ hsBefore
         \/ \E j \in 1..(i - 1) : ccalls[j] = [fn |-> "Handshake", err |-> Nil]
  /\ hsBefore => \A i \in DOMAIN ccalls : ccalls[i].fn # "Handshake"
  /\ (cop \in {"Read", "Write"} /\ HandshakeFailed) =>
       /\ cret = [n |-> 0, err |-> ccalls[1].err]
       /\ \A i \in DOMAIN ccalls : ccalls[i].fn \notin {"Read", "Write"}
       /\ ~hsDone
  /\ (cop # NoMethod /\ ~hsBefore) =>
       (ccalls # <<>> /\ ccalls[1].fn = "Handshake")

\* a Read whose handshake fails, then a Write whose handshake succeeds and
\* which reaches the embedded Write
C18_Witness ==
  /\ ncalls >= 2
  /\ ~hsBefore
  /\ cop = "Write"
  /\ ccalls = <<[fn |-> "Handshake", err |-> Nil], [fn |-> "Write", err |-> Nil]>>
  /\ cret = [n |-> MaxIOLen, err |-> Nil]
  /\ handshook

=============================================================================
